---- MODULE Spec2Model ----
(***************************************************************************)
(* State-machine model of the user-management page:                        *)
(*   - useDebounce   (hooks/useDebounce.ts)                                *)
(*   - useUsers      (hooks/useUser.ts)                                    *)
(*   - UsersPage     (app/page.tsx)                                        *)
(*   - filter utilities (utils/filters.ts)                                 *)
(*   - validation utilities (utils/validation.ts)                          *)
(*   - EditUserForm  (components/EditUserForm.tsx)                         *)
(*                                                                         *)
(* A JavaScript string is a sequence of one-character strings; '' is <<>>. *)
(* A nullable value (string | null, User | null) is the empty set for null *)
(* and a singleton set otherwise.                                          *)
(***************************************************************************)
EXTENDS Integers, Sequences, FiniteSets, TLC

(***************************************************************************)
(* Bounds of the model                                                     *)
(***************************************************************************)
\* longest search text the user types (prefixes of "John Doe")
MaxQueryLen == 4
\* ids used in updateUser calls are 1..MaxId; the fetched records have ids 1, 2
MaxId == 3
\* time advances in steps of TickLen milliseconds
TickLen == 100
\* longest array passed to the functions of utils/filters.ts
MaxRecords == 2
\* longest name and city passed to validateUserForm
MaxFieldLen == 3
\* longest email passed to validateUserForm
MaxEmailLen == 5

(***************************************************************************)
(* Program constants                                                       *)
(***************************************************************************)
\* useDebounce(searchQuery, 300)
Delay == 300

None == {}
Some(x) == {x}
The(o) == CHOOSE x \in o : TRUE

(***************************************************************************)
(* Strings                                                                 *)
(***************************************************************************)
EmptyString == <<>>

\* String.prototype.toLowerCase on one character of the model's alphabet
LowerChar(c) ==
    CASE c = "J" -> "j"
      [] c = "A" -> "a"
      [] c = "D" -> "d"
      [] c = "L" -> "l"
      [] c = "N" -> "n"
      [] c = "O" -> "o"
      [] c = "R" -> "r"
      [] c = "Y" -> "y"
      [] OTHER -> c

toLowerCase(s) == [i \in 1..Len(s) |-> LowerChar(s[i])]

IsWhiteSpace(c) == c \in {" ", "\t", "\n"}

RECURSIVE trimStart(_)
trimStart(s) ==
    IF s # <<>> /\ IsWhiteSpace(Head(s)) THEN trimStart(Tail(s)) ELSE s

RECURSIVE trimEnd(_)
trimEnd(s) ==
    IF s # <<>> /\ IsWhiteSpace(s[Len(s)])
    THEN trimEnd(SubSeq(s, 1, Len(s) - 1))
    ELSE s

\* String.prototype.trim
trim(s) == trimEnd(trimStart(s))

\* String.prototype.includes
includes(s, q) ==
    \E i \in 1..(Len(s) - Len(q) + 1) : SubSeq(s, i, i + Len(q) - 1) = q

\* the UTF-16 code unit of a character of the model's alphabet
CharCode(c) ==
    CASE c = " " -> 32
      [] c = "." -> 46
      [] c = "@" -> 64
      [] c = "A" -> 65
      [] c = "D" -> 68
      [] c = "J" -> 74
      [] c = "L" -> 76
      [] c = "N" -> 78
      [] c = "O" -> 79
      [] c = "R" -> 82
      [] c = "Y" -> 89
      [] c = "a" -> 97
      [] c = "b" -> 98
      [] c = "c" -> 99
      [] c = "d" -> 100
      [] c = "e" -> 101
      [] c = "h" -> 104
      [] c = "j" -> 106
      [] c = "l" -> 108
      [] c = "n" -> 110
      [] c = "o" -> 111
      [] c = "r" -> 114
      [] c = "y" -> 121

\* the comparison of Array.prototype.sort without a comparator: a sorts
\* before b by UTF-16 code units
RECURSIVE StrLess(_, _)
StrLess(a, b) ==
    IF b = <<>> THEN FALSE
    ELSE IF a = <<>> THEN TRUE
    ELSE IF CharCode(Head(a)) # CharCode(Head(b))
         THEN CharCode(Head(a)) < CharCode(Head(b))
         ELSE StrLess(Tail(a), Tail(b))

RECURSIVE InsertSorted(_, _)
InsertSorted(x, sorted) ==
    IF sorted = <<>> THEN <<x>>
    ELSE IF StrLess(Head(sorted), x)
         THEN <<Head(sorted)>> \o InsertSorted(x, Tail(sorted))
         ELSE <<x>> \o sorted

\* Array.prototype.sort() on an array of strings
RECURSIVE sort(_)
sort(a) == IF a = <<>> THEN <<>> ELSE InsertSorted(Head(a), sort(Tail(a)))

\* Array.from(new Set(a)): the distinct values of a in order of first occurrence
RECURSIVE ArrayFromSet(_)
ArrayFromSet(a) ==
    IF a = <<>> THEN <<>>
    ELSE LET front == ArrayFromSet(SubSeq(a, 1, Len(a) - 1))
             last == a[Len(a)]
         IN IF \E i \in 1..Len(front) : front[i] = last THEN front ELSE Append(front, last)

(***************************************************************************)
(* Records (types/user.ts)                                                 *)
(***************************************************************************)
Address(street, city) == [street |-> street, city |-> city]

User(id, name, email, address, phone) ==
    [id |-> id, name |-> name, email |-> email, address |-> address, phone |-> phone]

NameJo == <<"J", "o">>
NameAl == <<"A", "l">>
EmailA == <<"a", "@", "b", ".", "c">>
EmailJ == <<"j", "@", "b", ".", "c">>
CityRo == <<"R", "o">>
CityNy == <<"N", "y">>

User1 == User(1, NameJo, EmailJ, Address("street1", CityRo), "phone1")
User2 == User(2, NameAl, EmailA, Address("street2", CityNy), "phone2")

\* bodies the endpoint may answer with: arrays of records with distinct ids
Bodies == {<<>>, <<User1, User2>>}

\* text of the search box: the prefixes of "John Doe"
John == <<"J", "o", "h", "n", " ", "D", "o", "e">>
Queries == {SubSeq(John, 1, n) : n \in 0..MaxQueryLen}
LongestQuery == SubSeq(John, 1, MaxQueryLen)

\* values the edit form sends to handleSaveUser
EditNames == {NameJo}
EditEmails == {EmailA}
EditCities == {CityNy}

\* messages of the errors the fetch can end with
HttpErrorMessage == "Failed to fetch users"
TransportErrorMessages == {"Failed to fetch"}
DecodeErrorMessages == {"Unexpected end of JSON input"}
ErrorMessages == {HttpErrorMessage} \cup TransportErrorMessages \cup DecodeErrorMessages

Ids == 1..MaxId

\* Partial<User> values passed to updateUser by a consumer of the hook
EmptyPartial == [k \in {} |-> k]
Partials ==
    {EmptyPartial}
    \cup {[id |-> i] : i \in {2}}
    \cup {[name |-> n] : n \in EditNames}
    \cup {[phone |-> p] : p \in {"phone9"}}
    \cup {[address |-> Address("street9", c)] : c \in EditCities}
    \cup {[name |-> n, email |-> e] : n \in EditNames, e \in EditEmails}

(***************************************************************************)
(* State                                                                   *)
(***************************************************************************)
VARIABLES
    phase,           \* UsersPage: "rendered" (first render, effects not run), "mounted", "unmounted"
    users,           \* useUsers: users
    loading,         \* useUsers: loading
    error,           \* useUsers: error (None = null)
    isMounted,       \* useUsers effect: isMounted
    fetch,           \* position of loadUsers: "idle", "fetching", "decoding", "resolved", "rejected"
    fetchCount,      \* number of fetch() calls issued
    searchQuery,     \* UsersPage: searchQuery
    selectedCity,    \* UsersPage: selectedCity
    editingUser,     \* UsersPage: editingUser (None = null)
    debouncedValue,  \* useDebounce: debouncedValue
    timers,          \* pending setTimeout callbacks of useDebounce
    sinceChange,     \* time since searchQuery last changed (capped at Delay)
    lastUpdate,      \* the last updateUser call: None or Some([id, updates])
    formData,        \* EditUserForm: formData (None while the form is not mounted)
    errors,          \* EditUserForm: errors
    editOutcome,     \* how the last edit ended: "none" (none yet, or one is open), "saved", "cancelled"
    filteredUsersMemo,  \* UsersPage: the useMemo cell of filteredUsers, and whether the last render recomputed it
    filterCall       \* a call of one of the functions of utils/filters.ts or utils/validation.ts and its result

hookVars == <<users, loading, error, isMounted, fetch, fetchCount, lastUpdate>>
debounceVars == <<debouncedValue, timers, sinceChange>>
pageVars == <<searchQuery, selectedCity, editingUser>>
formVars == <<formData, errors, editOutcome>>
vars == <<phase, hookVars, debounceVars, pageVars, formVars, filteredUsersMemo, filterCall>>

\* FormErrors with no key
NoErrors == [k \in {} |-> k]
\* no function of utils/filters.ts has been called
NoCall == [fn |-> "none"]

\* the state of the first render of UsersPage
PageInit ==
    /\ phase = "rendered"
    /\ users = <<>>
    /\ loading = TRUE
    /\ error = None
    /\ isMounted = FALSE
    /\ fetch = "idle"
    /\ fetchCount = 0
    /\ searchQuery = EmptyString
    /\ selectedCity = EmptyString
    /\ editingUser = None
    /\ debouncedValue = EmptyString
    /\ timers = {}
    /\ sinceChange = 0
    /\ lastUpdate = None
    /\ formData = None
    /\ errors = NoErrors
    /\ editOutcome = "none"
    /\ filteredUsersMemo = [value |-> <<>>, recomputed |-> TRUE]

Init ==
    /\ PageInit
    /\ filterCall = NoCall

(***************************************************************************)
(* utils/filters.ts                                                        *)
(***************************************************************************)
\* mutant of filterUsersByName: the name is compared as stored
filterUsersByNameCaseSensitive(us, query) ==
    IF trim(query) = EmptyString
    THEN us
    ELSE LET lowerQuery == toLowerCase(query)
         IN SelectSeq(us, LAMBDA user : includes(user.name, lowerQuery))

filterUsersByName(us, query) ==
    IF trim(query) = EmptyString
    THEN us
    ELSE LET lowerQuery == toLowerCase(query)
         IN SelectSeq(us, LAMBDA user : includes(toLowerCase(user.name), lowerQuery))

\* mutant of filterUsersByCity: the city is matched as a substring
filterUsersByCitySubstring(us, city) ==
    IF city = EmptyString
    THEN us
    ELSE LET lowerCity == toLowerCase(city)
         IN SelectSeq(us, LAMBDA user : includes(toLowerCase(user.address.city), lowerCity))

filterUsersByCity(us, city) ==
    IF city = EmptyString
    THEN us
    ELSE LET lowerCity == toLowerCase(city)
         IN SelectSeq(us, LAMBDA user : toLowerCase(user.address.city) = lowerCity)

\* mutant of applyFilters: the city filter is applied to the unfiltered array
applyFiltersCityOnly(us, query, city) ==
    filterUsersByCity(us, city)

applyFilters(us, query, city) ==
    filterUsersByCity(filterUsersByName(us, query), city)

\* mutant of getUniqueCities: the cities are returned unsorted
getUniqueCitiesUnsorted(us) ==
    ArrayFromSet([i \in 1..Len(us) |-> us[i].address.city])

getUniqueCities(us) ==
    sort(ArrayFromSet([i \in 1..Len(us) |-> us[i].address.city]))

\* Which array object a filter returns: `return users` hands back the
\* argument itself, Array.prototype.filter allocates the array `fresh`.
filterUsersByNameRef(ref, query, fresh) ==
    IF trim(query) = EmptyString THEN ref ELSE fresh

filterUsersByCityRef(ref, city, fresh) ==
    IF city = EmptyString THEN ref ELSE fresh

applyFiltersRef(ref, query, city) ==
    filterUsersByCityRef(filterUsersByNameRef(ref, query, "new1"), city, "new2")

\* the values of the <option> elements of the city <select>
CityOptions(us) == {EmptyString} \cup {us[i].address.city : i \in 1..Len(us)}

\* UsersPage: filteredUsers, the list the current render shows
filteredUsers == applyFilters(users, debouncedValue, selectedCity)

\* mutant of UseMemo: the list is computed in every render
UseMemoEveryRender(usersReplaced) ==
    filteredUsersMemo' =
        [value |-> applyFilters(users', debouncedValue', selectedCity'), recomputed |-> TRUE]

\* the render after a step: useMemo(() => applyFilters(users, debouncedSearchQuery,
\* selectedCity), [users, debouncedSearchQuery, selectedCity]). The dependencies
\* are compared with Object.is: the strings by value, users by identity, and
\* usersReplaced tells whether the step stored a new array in users.
UseMemo(usersReplaced) ==
    LET changed ==
            \/ usersReplaced
            \/ debouncedValue' # debouncedValue
            \/ selectedCity' # selectedCity
    IN filteredUsersMemo' =
        [value |-> IF changed
                   THEN applyFilters(users', debouncedValue', selectedCity')
                   ELSE filteredUsersMemo.value,
         recomputed |-> changed]

\* a step without a render: nothing is computed
NoRender == filteredUsersMemo' = [filteredUsersMemo EXCEPT !.recomputed = FALSE]

(***************************************************************************)
(* utils/validation.ts                                                     *)
(***************************************************************************)
\* [^\s@]
IsEmailChar(c) == ~IsWhiteSpace(c) /\ c # "@"

\* mutant of isValidEmail: the pattern asks for no dot after the @
isValidEmailNoDot(email) ==
    \E i \in 1..Len(email) :
        /\ 1 < i
        /\ i < Len(email)
        /\ email[i] = "@"
        /\ \A k \in 1..Len(email) : k # i => IsEmailChar(email[k])

\* /^[^\s@]+@[^\s@]+\.[^\s@]+$/.test(email)
isValidEmail(email) ==
    \E i, j \in 1..Len(email) :
        /\ 1 < i
        /\ i + 1 < j
        /\ j < Len(email)
        /\ email[i] = "@"
        /\ email[j] = "."
        /\ \A k \in 1..Len(email) : k # i => IsEmailChar(email[k])

\* an errors object with the one key k
OneError(k, message) == [f \in {k} |-> message]

\* an errors object made of the keys of a and the keys of b
JoinErrors(a, b) ==
    [k \in (DOMAIN a) \cup (DOMAIN b) |-> IF k \in DOMAIN a THEN a[k] ELSE b[k]]

\* mutant of validateUserForm: the length of the name is taken before trimming
validateUserFormUntrimmedLength(data) ==
    LET trimmedName == trim(data.name)
        trimmedEmail == trim(data.email)
        trimmedCity == trim(data.city)
        nameErrors ==
            IF trimmedName = EmptyString THEN OneError("name", "Name is required")
            ELSE IF Len(data.name) < 2
                 THEN OneError("name", "Name must be at least 2 characters")
                 ELSE NoErrors
        emailErrors ==
            IF trimmedEmail = EmptyString THEN OneError("email", "Email is required")
            ELSE IF ~isValidEmail(trimmedEmail)
                 THEN OneError("email", "Please enter a valid email address")
                 ELSE NoErrors
        cityErrors ==
            IF trimmedCity = EmptyString THEN OneError("city", "City is required")
            ELSE IF Len(trimmedCity) < 2
                 THEN OneError("city", "City must be at least 2 characters")
                 ELSE NoErrors
    IN JoinErrors(nameErrors, JoinErrors(emailErrors, cityErrors))

\* mutant of validateUserForm: a field is looked at only when the fields
\* before it are valid
validateUserFormFirstErrorOnly(data) ==
    LET trimmedName == trim(data.name)
        trimmedEmail == trim(data.email)
        trimmedCity == trim(data.city)
    IN IF trimmedName = EmptyString THEN OneError("name", "Name is required")
       ELSE IF Len(trimmedName) < 2
            THEN OneError("name", "Name must be at least 2 characters")
       ELSE IF trimmedEmail = EmptyString THEN OneError("email", "Email is required")
       ELSE IF ~isValidEmail(trimmedEmail)
            THEN OneError("email", "Please enter a valid email address")
       ELSE IF trimmedCity = EmptyString THEN OneError("city", "City is required")
       ELSE IF Len(trimmedCity) < 2
            THEN OneError("city", "City must be at least 2 characters")
       ELSE NoErrors

validateUserForm(data) ==
    LET trimmedName == trim(data.name)
        trimmedEmail == trim(data.email)
        trimmedCity == trim(data.city)
        nameErrors ==
            IF trimmedName = EmptyString THEN OneError("name", "Name is required")
            ELSE IF Len(trimmedName) < 2
                 THEN OneError("name", "Name must be at least 2 characters")
                 ELSE NoErrors
        emailErrors ==
            IF trimmedEmail = EmptyString THEN OneError("email", "Email is required")
            ELSE IF ~isValidEmail(trimmedEmail)
                 THEN OneError("email", "Please enter a valid email address")
                 ELSE NoErrors
        cityErrors ==
            IF trimmedCity = EmptyString THEN OneError("city", "City is required")
            ELSE IF Len(trimmedCity) < 2
                 THEN OneError("city", "City must be at least 2 characters")
                 ELSE NoErrors
    IN JoinErrors(nameErrors, JoinErrors(emailErrors, cityErrors))

\* Object.keys(errors).length > 0
hasErrors(errs) == DOMAIN errs # {}

(***************************************************************************)
(* hooks/useUser.ts                                                        *)
(***************************************************************************)
\* {...user, ...updates}
Spread(user, updates) ==
    [k \in (DOMAIN user) \cup (DOMAIN updates) |->
        IF k \in DOMAIN updates THEN updates[k] ELSE user[k]]

\* mutant of updateUser: the updates are merged into every record
updateUserEvery(prevUsers, id, updates) ==
    [i \in 1..Len(prevUsers) |-> Spread(prevUsers[i], updates)]

\* prevUsers.map(user => user.id === id ? {...user, ...updates} : user)
updateUser(prevUsers, id, updates) ==
    [i \in 1..Len(prevUsers) |->
        IF prevUsers[i].id = id THEN Spread(prevUsers[i], updates) ELSE prevUsers[i]]

\* mutant of UseUsersEffect: the loading flag is not set while the fetch runs
UseUsersEffectNotLoading ==
    /\ isMounted' = TRUE
    /\ loading' = FALSE
    /\ error' = None
    /\ fetch' = "fetching"
    /\ fetchCount' = fetchCount + 1
    /\ UNCHANGED <<users, lastUpdate>>

\* the effect of useUsers: isMounted = true; loadUsers() runs up to its first await
UseUsersEffect ==
    /\ isMounted' = TRUE
    /\ loading' = TRUE
    /\ error' = None
    /\ fetch' = "fetching"
    /\ fetchCount' = fetchCount + 1
    /\ UNCHANGED <<users, lastUpdate>>

\* mutant of LoadUsersCatch: a failed fetch is retried
LoadUsersCatchRetry(message) ==
    /\ fetch' = "fetching"
    /\ fetchCount' = fetchCount + 1
    /\ error' = IF isMounted THEN Some(message) ELSE error
    /\ UNCHANGED <<users, loading, isMounted, lastUpdate>>

\* mutant of LoadUsersCatch: the flag loading is left set on failure
LoadUsersCatchStillLoading(message) ==
    /\ fetch' = "rejected"
    /\ error' = IF isMounted THEN Some(message) ELSE error
    /\ UNCHANGED <<users, loading, isMounted, fetchCount, lastUpdate>>

\* loadUsers, catch and finally blocks, entered with the Error err
LoadUsersCatch(message) ==
    /\ fetch' = "rejected"
    /\ error' = IF isMounted THEN Some(message) ELSE error
    /\ loading' = IF isMounted THEN FALSE ELSE loading
    /\ UNCHANGED <<users, isMounted, fetchCount, lastUpdate>>

\* mutant of LoadUsersThen: the result is applied without looking at isMounted
LoadUsersThenUnguarded(data) ==
    /\ fetch' = "resolved"
    /\ users' = data
    /\ loading' = FALSE
    /\ UNCHANGED <<error, isMounted, fetchCount, lastUpdate>>

\* mutant of LoadUsersThen: the flag loading is left set on success
LoadUsersThenStillLoading(data) ==
    /\ fetch' = "resolved"
    /\ users' = IF isMounted THEN data ELSE users
    /\ UNCHANGED <<loading, error, isMounted, fetchCount, lastUpdate>>

\* loadUsers, the try block after the await and the finally block
LoadUsersThen(data) ==
    /\ fetch' = "resolved"
    /\ users' = IF isMounted THEN data ELSE users
    /\ loading' = IF isMounted THEN FALSE ELSE loading
    /\ UNCHANGED <<error, isMounted, fetchCount, lastUpdate>>

\* fetchUsers: fetch() resolves with a response; !response.ok throws
FetchResponds(ok) ==
    /\ fetch = "fetching"
    /\ IF ok
       THEN /\ fetch' = "decoding"
            /\ UNCHANGED <<users, loading, error, isMounted, fetchCount, lastUpdate>>
       ELSE LoadUsersCatch(HttpErrorMessage)
    /\ UNCHANGED <<phase, debounceVars, pageVars, formVars, filterCall>>

\* fetchUsers: fetch() rejects (transport failure)
FetchRejects(message) ==
    /\ fetch = "fetching"
    /\ LoadUsersCatch(message)
    /\ UNCHANGED <<phase, debounceVars, pageVars, formVars, filterCall>>

\* fetchUsers: response.json() resolves with the decoded body
JsonResolves(data) ==
    /\ fetch = "decoding"
    /\ LoadUsersThen(data)
    /\ UNCHANGED <<phase, debounceVars, pageVars, formVars, filterCall>>

\* fetchUsers: response.json() rejects (the body is not JSON)
JsonRejects(message) ==
    /\ fetch = "decoding"
    /\ LoadUsersCatch(message)
    /\ UNCHANGED <<phase, debounceVars, pageVars, formVars, filterCall>>

\* the cleanup of the effect of useUsers
UseUsersCleanup ==
    /\ isMounted' = FALSE
    /\ UNCHANGED <<users, loading, error, fetch, fetchCount, lastUpdate>>

\* updateUser(id, updates) called by the consumer of the hook
UpdateUserCall(id, updates) ==
    /\ users' = updateUser(users, id, updates)
    /\ lastUpdate' = Some([id |-> id, updates |-> updates])
    /\ UNCHANGED <<loading, error, isMounted, fetch, fetchCount>>

(***************************************************************************)
(* hooks/useDebounce.ts                                                    *)
(***************************************************************************)
\* setTimeout(() => setDebouncedValue(value), delay)
SetTimeout(ts, value) ==
    {[t EXCEPT !.latest = FALSE] : t \in ts}
        \cup {[value |-> value, elapsed |-> 0, latest |-> TRUE]}

\* mutant of ClearTimeout: the pending timer is left to run
ClearTimeoutNothing(ts) == ts

\* clearTimeout(timer), timer being the one the latest effect created
ClearTimeout(ts) == {t \in ts : ~t.latest}

\* the effect of useDebounce, run for the value `value`
UseDebounceEffect(value) ==
    /\ timers' = SetTimeout(timers, value)
    /\ UNCHANGED debouncedValue

\* [value, delay] changed: cleanup of the previous effect, then the effect
UseDebounceRerun(value) ==
    /\ timers' = SetTimeout(ClearTimeout(timers), value)
    /\ UNCHANGED debouncedValue

\* mutant of UseDebounceCleanup: the effect returns no cleanup
UseDebounceCleanupMissing ==
    /\ UNCHANGED timers
    /\ UNCHANGED debouncedValue

\* the cleanup of the effect of useDebounce at unmount
UseDebounceCleanup ==
    /\ timers' = ClearTimeout(timers)
    /\ UNCHANGED debouncedValue

\* mutant of TimerFire: the callback runs before the delay has elapsed
TimerFireEarly ==
    /\ \E t \in timers :
        /\ debouncedValue' = t.value
        /\ timers' = timers \ {t}
    /\ UNCHANGED <<phase, hookVars, pageVars, sinceChange, formVars, filterCall>>

\* a timer whose delay has elapsed runs its callback
TimerFire ==
    /\ \E t \in timers :
        /\ t.elapsed >= Delay
        /\ debouncedValue' = t.value
        /\ timers' = timers \ {t}
    /\ UNCHANGED <<phase, hookVars, pageVars, sinceChange, formVars, filterCall>>

\* TickLen milliseconds pass while some timer is not yet due
Tick ==
    /\ \E t \in timers : t.elapsed < Delay
    /\ timers' = {IF t.elapsed < Delay
                  THEN [t EXCEPT !.elapsed = t.elapsed + TickLen]
                  ELSE t : t \in timers}
    /\ sinceChange' = IF sinceChange < Delay THEN sinceChange + TickLen ELSE sinceChange
    /\ UNCHANGED <<phase, hookVars, pageVars, debouncedValue, formVars, filterCall>>

(***************************************************************************)
(* app/page.tsx                                                            *)
(***************************************************************************)
\* the effects of the first render run
Mount ==
    /\ phase = "rendered"
    /\ phase' = "mounted"
    /\ UseUsersEffect
    /\ UseDebounceEffect(searchQuery)
    /\ sinceChange' = 0
    /\ UNCHANGED <<pageVars, formVars, filterCall>>

\* the page is torn down: the cleanups of both effects run
Unmount ==
    /\ phase = "mounted"
    /\ phase' = "unmounted"
    /\ UseUsersCleanup
    /\ UseDebounceCleanup
    /\ UNCHANGED <<pageVars, sinceChange, formVars, filterCall>>

\* onSearchChange = setSearchQuery; a new value re-renders and re-runs
\* the effect of useDebounce, the same value bails out
SetSearchQuery(value) ==
    /\ phase = "mounted"
    /\ value # searchQuery
    /\ searchQuery' = value
    /\ UseDebounceRerun(value)
    /\ sinceChange' = 0
    /\ UNCHANGED <<phase, hookVars, selectedCity, editingUser, formVars, filterCall>>

\* onCityChange = setSelectedCity, with the value of one of the options
SetSelectedCity(city) ==
    /\ phase = "mounted"
    /\ city \in CityOptions(users)
    /\ city # selectedCity
    /\ selectedCity' = city
    /\ UNCHANGED <<phase, hookVars, debounceVars, searchQuery, editingUser, formVars, filterCall>>

\* EditUserForm: the initial value of formData, read when the form mounts
InitialFormData(user) ==
    [name |-> user.name, email |-> user.email, city |-> user.address.city]

\* handleEditUser(user), from the Edit button of a card UserList shows; the
\* form mounts when editingUser was null and otherwise keeps its state, as
\* it is rendered without a key
handleEditUser(user) ==
    /\ phase = "mounted"
    /\ ~loading
    /\ error = None
    /\ \E i \in 1..Len(filteredUsers) : filteredUsers[i] = user
    /\ editingUser' = Some(user)
    /\ IF editingUser = None
       THEN /\ formData' = Some(InitialFormData(user))
            /\ errors' = NoErrors
       ELSE UNCHANGED <<formData, errors>>
    /\ editOutcome' = "none"
    /\ UNCHANGED <<phase, hookVars, debounceVars, searchQuery, selectedCity, filterCall>>

\* mutant of handleSaveUser: the first record is updated, not the edit target
handleSaveUserFirst(updates) ==
    /\ phase = "mounted"
    /\ editingUser # None
    /\ UpdateUserCall(users[1].id, updates)
    /\ editingUser' = None
    /\ formData' = None
    /\ errors' = NoErrors
    /\ editOutcome' = "saved"
    /\ UNCHANGED <<phase, debounceVars, searchQuery, selectedCity, filterCall>>

\* handleSaveUser(updates), from the submit of the edit form
handleSaveUser(updates) ==
    /\ phase = "mounted"
    /\ editingUser # None
    /\ UpdateUserCall(The(editingUser).id, updates)
    /\ editingUser' = None
    /\ formData' = None
    /\ errors' = NoErrors
    /\ editOutcome' = "saved"
    /\ UNCHANGED <<phase, debounceVars, searchQuery, selectedCity, filterCall>>

\* mutant of handleCancelEdit: cancelling also resets the city filter
handleCancelEditResetsCity ==
    /\ phase = "mounted"
    /\ editingUser # None
    /\ editingUser' = None
    /\ formData' = None
    /\ errors' = NoErrors
    /\ editOutcome' = "cancelled"
    /\ selectedCity' = EmptyString
    /\ UNCHANGED <<phase, hookVars, debounceVars, searchQuery, filterCall>>

\* handleCancelEdit
handleCancelEdit ==
    /\ phase = "mounted"
    /\ editingUser # None
    /\ editingUser' = None
    /\ formData' = None
    /\ errors' = NoErrors
    /\ editOutcome' = "cancelled"
    /\ UNCHANGED <<phase, hookVars, debounceVars, searchQuery, selectedCity, filterCall>>

\* the updates EditUserForm.handleSubmit passes to onSave for the record user
FormUpdates(user) ==
    {[name |-> n, email |-> e, address |-> [user.address EXCEPT !.city = c]] :
        n \in EditNames, e \in EditEmails, c \in EditCities}

(***************************************************************************)
(* components/EditUserForm.tsx                                             *)
(***************************************************************************)
Fields == {"name", "email", "city"}

\* the value undefined of a key of errors
Undefined == "undefined"

\* errors[name] is truthy
ErrorShown(errs, field) == field \in DOMAIN errs /\ errs[field] # Undefined

\* mutant of handleChange: the error of the changed field is left in place
handleChangeKeepsError(field, value) ==
    /\ phase = "mounted"
    /\ formData # None
    /\ value # The(formData)[field]
    /\ formData' = Some([The(formData) EXCEPT ![field] = value])
    /\ UNCHANGED <<phase, hookVars, debounceVars, pageVars, errors, editOutcome, filterCall>>

\* handleChange, for the input named field and its new value
handleChange(field, value) ==
    /\ phase = "mounted"
    /\ formData # None
    /\ value # The(formData)[field]
    /\ formData' = Some([The(formData) EXCEPT ![field] = value])
    /\ errors' = IF ErrorShown(errors, field)
                 THEN Spread(errors, OneError(field, Undefined))
                 ELSE errors
    /\ UNCHANGED <<phase, hookVars, debounceVars, pageVars, editOutcome, filterCall>>

\* handleBlur, for the input named field
handleBlur(field) ==
    /\ phase = "mounted"
    /\ formData # None
    /\ LET fieldErrors == validateUserForm(The(formData))
       IN errors' = IF field \in DOMAIN fieldErrors
                    THEN Spread(errors, OneError(field, fieldErrors[field]))
                    ELSE errors
    /\ UNCHANGED <<phase, hookVars, debounceVars, pageVars, formData, editOutcome, filterCall>>

\* mutant of SubmitUpdates: the values of the draft are passed as typed
SubmitUpdatesUntrimmed(user, data) ==
    [name |-> data.name,
     email |-> data.email,
     address |-> [user.address EXCEPT !.city = data.city]]

\* mutant of SubmitUpdates: the city of the draft is passed as typed
SubmitUpdatesCityUntrimmed(user, data) ==
    [name |-> trim(data.name),
     email |-> trim(data.email),
     address |-> [user.address EXCEPT !.city = data.city]]

\* handleSubmit: the updates passed to onSave
SubmitUpdates(user, data) ==
    [name |-> trim(data.name),
     email |-> trim(data.email),
     address |-> [user.address EXCEPT !.city = trim(data.city)]]

\* mutant of handleSubmit: the draft is saved without looking at the errors
handleSubmitUnchecked ==
    /\ phase = "mounted"
    /\ formData # None
    /\ editingUser # None
    /\ handleSaveUser(SubmitUpdates(The(editingUser), The(formData)))

\* handleSubmit; onSave is handleSaveUser
handleSubmit ==
    /\ phase = "mounted"
    /\ formData # None
    /\ editingUser # None
    /\ LET validationErrors == validateUserForm(The(formData))
       IN IF hasErrors(validationErrors)
          THEN /\ errors' = validationErrors
               /\ UNCHANGED <<phase, hookVars, debounceVars, pageVars, formData, editOutcome, filterCall>>
          ELSE handleSaveUser(SubmitUpdates(The(editingUser), The(formData)))

\* values typed into the inputs of the form
NameInputs == {<<" ", "J", "o">>, <<"A">>}
EmailInputs == {<<" ", "a", "@", "b", ".", "c">>}
CityInputs == {<<"N", "y", " ">>, <<" ">>}
FieldInputs(field) ==
    CASE field = "name" -> NameInputs
      [] field = "email" -> EmailInputs
      [] field = "city" -> CityInputs

\* Every step of the page but the passing of time and the teardown is followed
\* by a render. setUsers(data) stores the decoded array and updateUser the
\* array map() returns: both are new arrays.
Next ==
    \/ Mount /\ UseMemo(FALSE)
    \/ Unmount /\ NoRender
    \/ \E ok \in BOOLEAN : FetchResponds(ok) /\ UseMemo(FALSE)
    \/ \E m \in TransportErrorMessages : FetchRejects(m) /\ UseMemo(FALSE)
    \/ \E data \in Bodies : JsonResolves(data) /\ UseMemo(isMounted)
    \/ \E m \in DecodeErrorMessages : JsonRejects(m) /\ UseMemo(FALSE)
    \/ \E q \in Queries : SetSearchQuery(q) /\ UseMemo(FALSE)
    \/ \E c \in CityOptions(users) : SetSelectedCity(c) /\ UseMemo(FALSE)
    \/ \E i \in 1..Len(users) : handleEditUser(users[i]) /\ UseMemo(FALSE)
    \/ \E u \in editingUser : \E updates \in FormUpdates(u) :
            handleSaveUser(updates) /\ UseMemo(TRUE)
    \/ handleCancelEdit /\ UseMemo(FALSE)
    \/ Tick /\ NoRender
    \/ TimerFire /\ UseMemo(FALSE)

Spec == Init /\ [][Next]_vars

(***************************************************************************)
(* useUsers on its own, driven by an arbitrary consumer                    *)
(***************************************************************************)
HookMount ==
    /\ phase = "rendered"
    /\ phase' = "mounted"
    /\ UseUsersEffect
    /\ UNCHANGED <<debounceVars, pageVars, formVars, filterCall>>

HookUnmount ==
    /\ phase = "mounted"
    /\ phase' = "unmounted"
    /\ UseUsersCleanup
    /\ UNCHANGED <<debounceVars, pageVars, formVars, filterCall>>

HookUpdateUser(id, updates) ==
    /\ phase = "mounted"
    /\ UpdateUserCall(id, updates)
    /\ UNCHANGED <<phase, debounceVars, pageVars, formVars, filterCall>>

\* the consumer is not the page: the cell of filteredUsers is not followed
HookNext ==
    \/ HookMount /\ UNCHANGED filteredUsersMemo
    \/ HookUnmount /\ UNCHANGED filteredUsersMemo
    \/ \E ok \in BOOLEAN : FetchResponds(ok) /\ UNCHANGED filteredUsersMemo
    \/ \E m \in TransportErrorMessages : FetchRejects(m) /\ UNCHANGED filteredUsersMemo
    \/ \E data \in Bodies : JsonResolves(data) /\ UNCHANGED filteredUsersMemo
    \/ \E m \in DecodeErrorMessages : JsonRejects(m) /\ UNCHANGED filteredUsersMemo
    \/ \E id \in Ids : \E updates \in Partials :
            HookUpdateUser(id, updates) /\ UNCHANGED filteredUsersMemo

HookSpec == Init /\ [][HookNext]_vars

(***************************************************************************)
(* The functions of utils/filters.ts, each called once on bounded inputs   *)
(***************************************************************************)
Filter1 == User(1, <<"J", "o">>, EmailJ, Address("street1", <<"N", "y">>), "phone1")
Filter2 == User(2, <<"A", "l">>, EmailA, Address("street2", <<"n", "y">>), "phone2")
Filter3 == User(3, <<"A", " ", "J">>, EmailA, Address("street3", <<"N">>), "phone3")
Filter4 == User(4, <<"j", "o">>, EmailJ, Address("street4", <<"R", "o">>), "phone4")
FilterPool == {Filter1, Filter2, Filter3, Filter4}

FilterUsers == UNION {[1..n -> FilterPool] : n \in 0..MaxRecords}
FilterQueries == {EmptyString, <<" ">>, <<"j">>, <<"J", "O">>, <<" ", "j">>}
FilterCities == {EmptyString, <<"N", "Y">>, <<"N">>, <<" ">>}

FilterInit ==
    /\ PageInit
    /\ filterCall \in {[fn |-> "input", users |-> us, query |-> q, city |-> c] :
                            us \in FilterUsers, q \in FilterQueries, c \in FilterCities}

\* the call fn(...) returned result, the array object ref
Returned(fn, result, ref) ==
    filterCall' = [fn |-> fn, users |-> filterCall.users, query |-> filterCall.query,
                   city |-> filterCall.city, result |-> result, ref |-> ref]

CallFilterUsersByName ==
    /\ filterCall.fn = "input"
    /\ Returned("filterUsersByName",
                filterUsersByName(filterCall.users, filterCall.query),
                filterUsersByNameRef("users", filterCall.query, "new1"))
    /\ UNCHANGED <<phase, hookVars, debounceVars, pageVars, formVars>>

CallFilterUsersByCity ==
    /\ filterCall.fn = "input"
    /\ Returned("filterUsersByCity",
                filterUsersByCity(filterCall.users, filterCall.city),
                filterUsersByCityRef("users", filterCall.city, "new1"))
    /\ UNCHANGED <<phase, hookVars, debounceVars, pageVars, formVars>>

CallApplyFilters ==
    /\ filterCall.fn = "input"
    /\ Returned("applyFilters",
                applyFilters(filterCall.users, filterCall.query, filterCall.city),
                applyFiltersRef("users", filterCall.query, filterCall.city))
    /\ UNCHANGED <<phase, hookVars, debounceVars, pageVars, formVars>>

CallGetUniqueCities ==
    /\ filterCall.fn = "input"
    /\ Returned("getUniqueCities", getUniqueCities(filterCall.users), "new1")
    /\ UNCHANGED <<phase, hookVars, debounceVars, pageVars, formVars>>

FilterNext ==
    \/ CallFilterUsersByName /\ UNCHANGED filteredUsersMemo
    \/ CallFilterUsersByCity /\ UNCHANGED filteredUsersMemo
    \/ CallApplyFilters /\ UNCHANGED filteredUsersMemo
    \/ CallGetUniqueCities /\ UNCHANGED filteredUsersMemo

FilterSpec == FilterInit /\ [][FilterNext]_vars

(***************************************************************************)
(* The functions of utils/validation.ts, each called once on bounded inputs *)
(***************************************************************************)
\* the strings of at most n characters of the set alphabet
Strings(alphabet, n) == UNION {[1..k -> alphabet] : k \in 0..n}

ValidationNames == Strings({" ", "a"}, MaxFieldLen)
ValidationCities == Strings({" ", "b"}, MaxFieldLen)
ValidationEmails == Strings({" ", "a", "@", "."}, MaxEmailLen)
\* '', ' ', 'a@a', 'a@a.a', ' a@a.a ', 'a@a.@'
SomeEmails ==
    {<<>>, <<" ">>, <<"a", "@", "a">>, <<"a", "@", "a", ".", "a">>,
     <<" ", "a", "@", "a", ".", "a", " ">>, <<"a", "@", "a", ".", "@">>}

\* EditableUser values: every name and city with some emails, and every
\* email with one name and city
FormInputs ==
    {[name |-> n, email |-> e, city |-> c] :
        n \in ValidationNames, e \in SomeEmails, c \in ValidationCities}
    \cup {[name |-> <<"a", "a">>, email |-> e, city |-> <<"b", "b">>] : e \in ValidationEmails}

ValidationInit ==
    /\ PageInit
    /\ filterCall \in {[fn |-> "input", data |-> d] : d \in FormInputs}

\* const validationErrors = validateUserForm(formData); hasErrors(validationErrors)
CallValidateUserForm ==
    /\ filterCall.fn = "input"
    /\ LET validationErrors == validateUserForm(filterCall.data)
       IN filterCall' = [fn |-> "validateUserForm", data |-> filterCall.data,
                         result |-> validationErrors,
                         hasErrors |-> hasErrors(validationErrors)]
    /\ UNCHANGED <<phase, hookVars, debounceVars, pageVars, formVars, filteredUsersMemo>>

\* isValidEmail(trimmedEmail)
CallIsValidEmail ==
    /\ filterCall.fn = "input"
    /\ filterCall' = [fn |-> "isValidEmail", data |-> filterCall.data,
                      email |-> trim(filterCall.data.email),
                      result |-> isValidEmail(trim(filterCall.data.email))]
    /\ UNCHANGED <<phase, hookVars, debounceVars, pageVars, formVars, filteredUsersMemo>>

ValidationNext ==
    \/ CallValidateUserForm
    \/ CallIsValidEmail

ValidationSpec == ValidationInit /\ [][ValidationNext]_vars

(***************************************************************************)
(* The page with its edit form                                             *)
(***************************************************************************)
\* No time passes in this specification, so that the debounced text stays
\* empty and every record the city filter lets through can be edited; the
\* page is not torn down, and the cell of filteredUsers is not followed: the
\* list shown is the operator filteredUsers.
EditQueries == {EmptyString, LongestQuery}

EditNext ==
    \/ Mount /\ UNCHANGED filteredUsersMemo
    \/ \E ok \in BOOLEAN : FetchResponds(ok) /\ UNCHANGED filteredUsersMemo
    \/ \E data \in Bodies : JsonResolves(data) /\ UNCHANGED filteredUsersMemo
    \/ \E q \in EditQueries : SetSearchQuery(q) /\ UNCHANGED filteredUsersMemo
    \/ \E c \in CityOptions(users) : SetSelectedCity(c) /\ UNCHANGED filteredUsersMemo
    \/ \E i \in 1..Len(users) : handleEditUser(users[i]) /\ UNCHANGED filteredUsersMemo
    \/ \E field \in Fields : \E value \in FieldInputs(field) :
            handleChange(field, value) /\ UNCHANGED filteredUsersMemo
    \/ \E field \in Fields : handleBlur(field) /\ UNCHANGED filteredUsersMemo
    \/ handleSubmit /\ UNCHANGED filteredUsersMemo
    \/ handleCancelEdit /\ UNCHANGED filteredUsersMemo

EditSpec == Init /\ [][EditNext]_vars

(***************************************************************************)
(* The edit form on the page, with no search text and no city selected     *)
(***************************************************************************)
\* values typed into the inputs of the form: for each field one that is
\* valid once trimmed and others that are not
DraftNames == {<<" ", "J", "o">>, <<"A">>, <<" ">>}
DraftEmails == {<<" ", "a", "@", "b", ".", "c">>, <<"a", "@", "b">>}
DraftCities == {<<"N", "y", " ">>, <<" ">>, <<"N">>}
DraftInputs(field) ==
    CASE field = "name" -> DraftNames
      [] field = "email" -> DraftEmails
      [] field = "city" -> DraftCities

FormNext ==
    \/ Mount /\ UNCHANGED filteredUsersMemo
    \/ \E ok \in BOOLEAN : FetchResponds(ok) /\ UNCHANGED filteredUsersMemo
    \/ \E data \in Bodies : JsonResolves(data) /\ UNCHANGED filteredUsersMemo
    \/ \E i \in 1..Len(users) : handleEditUser(users[i]) /\ UNCHANGED filteredUsersMemo
    \/ \E field \in Fields : \E value \in DraftInputs(field) :
            handleChange(field, value) /\ UNCHANGED filteredUsersMemo
    \/ \E field \in Fields : handleBlur(field) /\ UNCHANGED filteredUsersMemo
    \/ handleSubmit /\ UNCHANGED filteredUsersMemo
    \/ handleCancelEdit /\ UNCHANGED filteredUsersMemo

FormSpec == Init /\ [][FormNext]_vars

\* the page with the scheduling the event loop guarantees: time passes and
\* a timer that is due runs its callback
LiveSpec ==
    /\ Init
    /\ [][Next]_vars
    /\ WF_vars(Tick /\ NoRender)
    /\ WF_vars(TimerFire /\ UseMemo(FALSE))

(***************************************************************************)
(* Properties                                                              *)
(***************************************************************************)
InFlight == fetch \in {"idle", "fetching", "decoding"}
HasId(us, id) == \E i \in 1..Len(us) : us[i].id = id
DistinctIds(us) == \A i, j \in 1..Len(us) : us[i].id = us[j].id => i = j

\* C1: at most one debounce timer is pending and it carries the latest value
\* of the input; a new input cancels the pending timer, so whenever the
\* debounced value changes it becomes the current input, never a superseded one.
C1_OnlyLatestTimerFires ==
    /\ [](Cardinality(timers) <= 1 /\ \A t \in timers : t.value = searchQuery)
    /\ [][debouncedValue' # debouncedValue => debouncedValue' = searchQuery]_vars

\* the longest text was typed over earlier texts and it alone was propagated
C1_Witness ==
    /\ LongestQuery # EmptyString
    /\ searchQuery = LongestQuery
    /\ debouncedValue = LongestQuery
    /\ timers = {}

\* C2: the debounced value changes only when the full delay has elapsed since
\* the input last changed, it then becomes the input and no timer is left to
\* propagate again; while mounted with no timer pending it equals the input;
\* and once the input stops changing the debounced value ends up equal to it.
C2_PropagatedOnceAfterDelay ==
    /\ [][debouncedValue' # debouncedValue =>
            /\ sinceChange >= Delay
            /\ debouncedValue' = searchQuery
            /\ timers' = {}]_vars
    /\ []((phase = "mounted" /\ timers = {}) => debouncedValue = searchQuery)
    /\ (<>[][searchQuery' = searchQuery]_vars
            => <>[](phase = "mounted" => debouncedValue = searchQuery))

\* the input was changed, the delay elapsed and the value was propagated
C2_Witness ==
    /\ phase = "mounted"
    /\ searchQuery # EmptyString
    /\ debouncedValue = searchQuery
    /\ sinceChange >= Delay
    /\ timers = {}

\* C3: teardown cancels the pending timer, and after teardown the debounced
\* value never changes.
C3_TeardownCancelsTimer ==
    /\ [](phase = "unmounted" => timers = {})
    /\ [][phase = "unmounted" => debouncedValue' = debouncedValue]_vars

\* torn down while the timer of a new input was pending
C3_Witness ==
    /\ phase = "unmounted"
    /\ searchQuery # debouncedValue
    /\ sinceChange < Delay

\* C4: after teardown a fetch that settles, with a result or a failure,
\* changes none of users, error and loading.
C4_LateResultDiscarded ==
    [][phase = "unmounted" => UNCHANGED <<users, error, loading>>]_vars

\* the fetch settled after the teardown and nothing was applied
C4_Witness ==
    /\ phase = "unmounted"
    /\ fetch \in {"resolved", "rejected"}
    /\ loading
    /\ users = <<>>
    /\ error = None

\* C5: while the fetch has not settled, loading is true, the collection is
\* empty and error is null; before the effects ran there is moreover no edit
\* target and the search text and the selected city are empty.
C5_InFlightState ==
    /\ InFlight => (loading /\ users = <<>> /\ error = None)
    /\ phase = "rendered" =>
        (editingUser = None /\ searchQuery = EmptyString /\ selectedCity = EmptyString)

\* the fetch is in flight and the search text was changed and propagated meanwhile
C5_Witness ==
    /\ phase = "mounted"
    /\ fetch = "decoding"
    /\ debouncedValue # EmptyString

\* C6: when the body is decoded while the consumer is mounted, users becomes
\* the decoded array, error is null and loading is false.
C6_SuccessState ==
    [][\A data \in Bodies :
        (JsonResolves(data) /\ phase = "mounted") =>
            (users' = data /\ error' = None /\ loading' = FALSE)]_vars

\* the fetch succeeded with a non-empty array while mounted
C6_Witness ==
    /\ fetch = "resolved"
    /\ users = <<User1, User2>>
    /\ error = None
    /\ ~loading

\* C7: a fetch that fails while the consumer is mounted (non-2xx response,
\* transport failure, undecodable body) leaves loading false, error a message
\* and the collection empty; the collection is empty ever after.
C7_FailureState ==
    /\ [][(fetch \in {"fetching", "decoding"} /\ fetch' = "rejected" /\ phase = "mounted") =>
            /\ loading' = FALSE
            /\ \E m \in ErrorMessages : error' = Some(m)
            /\ users' = <<>>]_vars
    /\ [](fetch = "rejected" => users = <<>>)
    /\ [](error # None => (~loading /\ users = <<>>))

\* the fetch failed with a non-2xx response and updateUser was called afterwards
C7_Witness ==
    /\ fetch = "rejected"
    /\ error = Some(HttpErrorMessage)
    /\ ~loading
    /\ users = <<>>
    /\ lastUpdate # None

\* C8: exactly one fetch is issued, by the effects of the first render, and
\* no later step issues another.
C8_ExactlyOneFetch ==
    /\ [](fetchCount = IF phase = "rendered" THEN 0 ELSE 1)
    /\ [][fetchCount' # fetchCount => phase = "rendered"]_vars

\* the fetch failed, the user went on typing, and still one fetch was issued
C8_Witness ==
    /\ fetch = "rejected"
    /\ fetchCount = 1
    /\ searchQuery # EmptyString
    /\ debouncedValue = searchQuery

\* C9: updateUser(id, updates) gives each record whose id is id the values of
\* updates for the fields updates has and leaves its other fields alone; the
\* other records keep value and position; with no such record the collection
\* is unchanged; error is not touched.
C9_UpdateFrame ==
    [][\A id \in Ids : \A updates \in Partials :
        HookUpdateUser(id, updates) =>
            /\ Len(users') = Len(users)
            /\ \A i \in 1..Len(users) :
                IF users[i].id = id
                THEN /\ DOMAIN users'[i] = DOMAIN users[i]
                     /\ \A k \in DOMAIN users[i] :
                            users'[i][k] = IF k \in DOMAIN updates THEN updates[k] ELSE users[i][k]
                ELSE users'[i] = users[i]
            /\ (~HasId(users, id) => users' = users)
            /\ error' = error]_vars

\* the last call named a record that is absent from a non-empty collection
C9_Witness ==
    \E call \in lastUpdate :
        /\ Len(users) = 2
        /\ ~HasId(users, call.id)
        /\ DOMAIN call.updates # {}

\* C10: after any updateUser calls no record's id has changed and no two
\* records share an id.
C10_IdsStable ==
    /\ [](DistinctIds(users))
    /\ [][Len(users') = Len(users) =>
            \A i \in 1..Len(users) : users'[i].id = users[i].id]_vars

\* a step of the page events named by C11
PageEvent ==
    \/ \E q \in EditQueries : SetSearchQuery(q)
    \/ \E c \in CityOptions(users) : SetSelectedCity(c)
    \/ \E i \in 1..Len(users) : handleEditUser(users[i])
    \/ handleSubmit
    \/ handleCancelEdit

DraftValid == formData # None /\ ~hasErrors(validateUserForm(The(formData)))
DraftInvalid == formData # None /\ hasErrors(validateUserForm(The(formData)))

\* C11: once the fetch has succeeded, every search, city, edit-request, submit
\* and cancel step keeps the number, the ids and the order of the records; a
\* record changes only in a submit of a valid draft, and only if its id is
\* the id of the edit target.
C11_CollectionShapeKept ==
    [][(fetch = "resolved" /\ PageEvent) =>
        /\ Len(users') = Len(users)
        /\ \A i \in 1..Len(users) : users'[i].id = users[i].id
        /\ users' # users => (handleSubmit /\ DraftValid)
        /\ \A i \in 1..Len(users) :
            users'[i] # users[i] =>
                (editingUser # None /\ users[i].id = The(editingUser).id)]_vars

\* the second record was edited and saved while the first kept its value,
\* with a search text and a city selected
C11_Witness ==
    /\ fetch = "resolved"
    /\ editOutcome = "saved"
    /\ Len(users) = 2
    /\ users[1] = User1
    /\ users[2] # User2
    /\ users[2].id = User2.id
    /\ searchQuery # EmptyString
    /\ selectedCity # EmptyString

\* C12: a submit of a draft with errors does not call updateUser, leaves the
\* collection and the edit target alone and sets errors to
\* validateUserForm(draft); the collection changes only when the draft has
\* no error.
C12_InvalidSubmitBlocked ==
    [][/\ (DraftInvalid /\ handleSubmit) =>
            /\ users' = users
            /\ lastUpdate' = lastUpdate
            /\ editingUser' = editingUser
            /\ editingUser # None
            /\ formData' = formData
            /\ errors' = validateUserForm(The(formData))
       /\ ((users' # users \/ lastUpdate' # lastUpdate) /\ fetch = "resolved") => DraftValid]_vars

\* a draft with two invalid fields was submitted: both errors are shown and
\* the form is still open on an unchanged collection
C12_Witness ==
    /\ editingUser # None
    /\ formData # None
    /\ DOMAIN errors = {"name", "city"}
    /\ errors = validateUserForm(The(formData))
    /\ users = <<User1, User2>>
    /\ lastUpdate = None

\* C13: a submit of a draft without errors calls updateUser once with the id
\* of the edit target, the trimmed name and email and the target's address
\* with the city replaced by the trimmed city; the edit target becomes none
\* and the other fields of that record, and the other records, are unchanged.
C13_ValidSubmitCommits ==
    [][(DraftValid /\ editingUser # None /\ handleSubmit) =>
        LET target == The(editingUser)
            draft == The(formData)
        IN /\ lastUpdate' = Some([id |-> target.id,
                                  updates |-> [name |-> trim(draft.name),
                                               email |-> trim(draft.email),
                                               address |-> [street |-> target.address.street,
                                                            city |-> trim(draft.city)]]])
           /\ editingUser' = None
           /\ \A i \in 1..Len(users) :
                IF users[i].id = target.id
                THEN /\ users'[i].id = users[i].id
                     /\ users'[i].phone = users[i].phone
                     /\ users'[i].address.street = users[i].address.street
                     /\ users'[i].name = trim(draft.name)
                     /\ users'[i].email = trim(draft.email)
                     /\ users'[i].address.city = trim(draft.city)
                ELSE users'[i] = users[i]]_vars

\* the first record was saved with a typed email and city, both trimmed
C13_Witness ==
    /\ editOutcome = "saved"
    /\ editingUser = None
    /\ lastUpdate = Some([id |-> 1,
                          updates |-> [name |-> NameJo, email |-> EmailA,
                                       address |-> Address("street1", CityNy)]])
    /\ users = <<User(1, NameJo, EmailA, Address("street1", CityNy), "phone1"), User2>>

\* C14: every edit request makes the record the edit target and leaves the
\* draft equal to its name, email and city.
C14_EditRequestSeedsDraft ==
    [][\A i \in 1..Len(users) :
        handleEditUser(users[i]) =>
            /\ editingUser' = Some(users[i])
            /\ formData' = Some(InitialFormData(users[i]))]_vars

\* C15: cancelling sets the edit target to none, discards the draft and the
\* errors, and leaves the collection, the search text, the debounced text and
\* the selected city unchanged, without any updateUser call.
C15_CancelDiscards ==
    [][handleCancelEdit =>
        /\ editingUser' = None
        /\ formData' = None
        /\ errors' = NoErrors
        /\ UNCHANGED <<users, lastUpdate, searchQuery, debouncedValue, selectedCity>>]_vars

\* an edit was cancelled with a search text and a city selected
C15_Witness ==
    /\ editOutcome = "cancelled"
    /\ editingUser = None
    /\ formData = None
    /\ users = <<User1, User2>>
    /\ searchQuery # EmptyString
    /\ selectedCity # EmptyString

\* s contains q as a contiguous run of characters
Contains(s, q) ==
    \E i \in 0..(Len(s) - Len(q)) : \A k \in 1..Len(q) : s[i + k] = q[k]

\* result consists of exactly the elements of us that satisfy Keep, in the
\* order and with the multiplicity they have in us
ExactlyThose(result, us, Keep(_)) ==
    LET kept == {i \in 1..Len(us) : Keep(us[i])}
    IN /\ Len(result) = Cardinality(kept)
       /\ \A i \in kept : result[Cardinality({j \in kept : j <= i})] = us[i]

\* a is before b in the lexicographic order of the code units
LexLess(a, b) ==
    \E k \in 0..Len(a) :
        /\ k <= Len(b)
        /\ \A i \in 1..k : a[i] = b[i]
        /\ \/ (k = Len(a) /\ k < Len(b))
           \/ (k < Len(a) /\ k < Len(b) /\ CharCode(a[k + 1]) < CharCode(b[k + 1]))

\* C16: filterUsersByName returns the records themselves for an empty or
\* whitespace-only query, and otherwise exactly the records whose lowercased
\* name contains the lowercased query.
C16_FilterByName ==
    filterCall.fn = "filterUsersByName" =>
        IF \A k \in 1..Len(filterCall.query) : IsWhiteSpace(filterCall.query[k])
        THEN filterCall.result = filterCall.users
        ELSE ExactlyThose(filterCall.result, filterCall.users,
                LAMBDA u : Contains(toLowerCase(u.name), toLowerCase(filterCall.query)))

\* a query in upper case kept the record whose name matches in another case
\* and dropped another record
C16_Witness ==
    /\ filterCall.fn = "filterUsersByName"
    /\ filterCall.query = <<"J", "O">>
    /\ filterCall.users = <<Filter2, Filter1>>
    /\ filterCall.result = <<Filter1>>

\* C17: filterUsersByCity returns the records themselves for an empty city,
\* and otherwise exactly the records whose lowercased city is the lowercased
\* city as a whole.
C17_FilterByCity ==
    filterCall.fn = "filterUsersByCity" =>
        IF filterCall.city = EmptyString
        THEN filterCall.result = filterCall.users
        ELSE ExactlyThose(filterCall.result, filterCall.users,
                LAMBDA u : toLowerCase(u.address.city) = toLowerCase(filterCall.city))

\* the city "N" kept the record of city "N" and dropped the one of city "Ny"
C17_Witness ==
    /\ filterCall.fn = "filterUsersByCity"
    /\ filterCall.city = <<"N">>
    /\ filterCall.users = <<Filter1, Filter3>>
    /\ filterCall.result = <<Filter3>>

\* C18: applyFilters is the city filter of the name filter, and equals the
\* name filter of the city filter.
C18_FilterOrderIrrelevant ==
    filterCall.fn = "applyFilters" =>
        /\ filterCall.result =
            filterUsersByCity(filterUsersByName(filterCall.users, filterCall.query), filterCall.city)
        /\ filterCall.result =
            filterUsersByName(filterUsersByCity(filterCall.users, filterCall.city), filterCall.query)

\* both filters constrain: one record passes the name filter only, one both
C18_Witness ==
    /\ filterCall.fn = "applyFilters"
    /\ filterCall.query = <<"j">>
    /\ filterCall.city = <<"N", "Y">>
    /\ filterCall.users = <<Filter4, Filter1>>
    /\ filterCall.result = <<Filter1>>

C20_FreshOutput ==
    filterCall.fn \in {"filterUsersByName", "filterUsersByCity", "applyFilters"} =>
        filterCall.ref # "users"

\* the places of s that hold no whitespace
NonSpaces(s) == {i \in 1..Len(s) : ~IsWhiteSpace(s[i])}
FirstOf(S) == CHOOSE i \in S : \A j \in S : i <= j
LastOf(S) == CHOOSE i \in S : \A j \in S : j <= i

\* s without its leading and trailing whitespace
Trimmed(s) ==
    IF NonSpaces(s) = {} THEN <<>> ELSE SubSeq(s, FirstOf(NonSpaces(s)), LastOf(NonSpaces(s)))

RequiredMessage(field) ==
    CASE field = "name" -> "Name is required"
      [] field = "email" -> "Email is required"
      [] field = "city" -> "City is required"

TooShortMessage(field) ==
    CASE field = "name" -> "Name must be at least 2 characters"
      [] field = "city" -> "City must be at least 2 characters"

InvalidEmailMessage == "Please enter a valid email address"

\* the errors object errs has the message for field / has no key for field
Reports(errs, field, message) == field \in DOMAIN errs /\ errs[field] = message
Silent(errs, field) == field \notin DOMAIN errs

\* e is local '@' domain '.' rest, each part non-empty, local and domain
\* without whitespace and '@', and every character of rest satisfying RestOk
Matches(e, RestOk(_)) ==
    \E at, dot \in 1..Len(e) :
        /\ e[at] = "@"
        /\ e[dot] = "."
        /\ 1 < at /\ at + 1 < dot /\ dot < Len(e)
        /\ \A k \in 1..(at - 1) : ~IsWhiteSpace(e[k]) /\ e[k] # "@"
        /\ \A k \in (at + 1)..(dot - 1) : ~IsWhiteSpace(e[k]) /\ e[k] # "@"
        /\ \A k \in (dot + 1)..Len(e) : RestOk(e[k])

\* the pattern whose last part is 'one or more non-space characters'
MatchesRestNonSpace(e) == Matches(e, LAMBDA c : ~IsWhiteSpace(c))
\* the pattern whose last part is 'one or more non-space non-@ characters'
MatchesRestNonSpaceNonAt(e) == Matches(e, LAMBDA c : ~IsWhiteSpace(c) /\ c # "@")

\* C21: for name and city, validateUserForm reports '<Field> is required'
\* when the trimmed value is empty, otherwise '<Field> must be at least 2
\* characters' when the trimmed value has fewer than 2 characters, and
\* otherwise gives the field no key.
C21_NameCityRules ==
    filterCall.fn = "validateUserForm" =>
        \A field \in {"name", "city"} :
            LET value == Trimmed(filterCall.data[field])
            IN IF value = <<>>
               THEN Reports(filterCall.result, field, RequiredMessage(field))
               ELSE IF Len(value) < 2
                    THEN Reports(filterCall.result, field, TooShortMessage(field))
                    ELSE Silent(filterCall.result, field)

\* a name of two characters of which one is left after trimming is too
\* short, and a city of three of which two are left is accepted
C21_Witness ==
    /\ filterCall.fn = "validateUserForm"
    /\ filterCall.data.name = <<" ", "a">>
    /\ filterCall.data.city = <<"b", "b", " ">>
    /\ Reports(filterCall.result, "name", "Name must be at least 2 characters")
    /\ Silent(filterCall.result, "city")

\* C22 as stated: an empty trimmed email is reported as required; otherwise
\* the email is reported as invalid exactly when it does not match: non-space
\* non-@ characters, '@', non-space non-@ characters, '.', non-space characters.
C22_EmailRule ==
    filterCall.fn = "validateUserForm" =>
        LET value == Trimmed(filterCall.data.email)
        IN IF value = <<>>
           THEN Reports(filterCall.result, "email", RequiredMessage("email"))
           ELSE IF ~MatchesRestNonSpace(value)
                THEN Reports(filterCall.result, "email", InvalidEmailMessage)
                ELSE Silent(filterCall.result, "email")

\* C22 as amended: the same with the last part of the pattern made of
\* non-space non-@ characters; isValidEmail is true exactly of the strings
\* that match.
C22_EmailRuleAmended ==
    /\ filterCall.fn = "validateUserForm" =>
        LET value == Trimmed(filterCall.data.email)
        IN IF value = <<>>
           THEN Reports(filterCall.result, "email", RequiredMessage("email"))
           ELSE IF ~MatchesRestNonSpaceNonAt(value)
                THEN Reports(filterCall.result, "email", InvalidEmailMessage)
                ELSE Silent(filterCall.result, "email")
    /\ filterCall.fn = "isValidEmail" =>
        (filterCall.result <=> MatchesRestNonSpaceNonAt(filterCall.email))

\* an email whose part after the dot is an '@' is reported as invalid
C22_Witness ==
    /\ filterCall.fn = "validateUserForm"
    /\ filterCall.data.email = <<"a", "@", "a", ".", "@">>
    /\ Reports(filterCall.result, "email", InvalidEmailMessage)

\* the field of an EditableUser is invalid
FieldInvalid(field, value) ==
    \/ Trimmed(value) = <<>>
    \/ field \in {"name", "city"} /\ Len(Trimmed(value)) < 2
    \/ field = "email" /\ ~MatchesRestNonSpaceNonAt(Trimmed(value))

\* values given to the other fields when one field is looked at
OtherValues(field) ==
    CASE field = "name" -> {<<>>, <<"a">>, <<" ", "a", "a">>}
      [] field = "email" -> SomeEmails
      [] field = "city" -> {<<>>, <<"b">>, <<"b", "b", " ">>}

\* the entry of the errors object errs for field: its message, or none
Entry(errs, field) == IF field \in DOMAIN errs THEN Some(errs[field]) ELSE None

\* C23: the result of validateUserForm has a key for a field exactly when
\* that field is invalid, whatever the other fields are; the entry of a field
\* is the same for every value of the other two fields; hasErrors of the
\* result is true exactly when some field is invalid.
C23_FieldsIndependent ==
    filterCall.fn = "validateUserForm" =>
        /\ DOMAIN filterCall.result \subseteq Fields
        /\ \A field \in Fields :
            /\ field \in DOMAIN filterCall.result
                    <=> FieldInvalid(field, filterCall.data[field])
            /\ \A g, h \in Fields : (g # field /\ h # field /\ g # h) =>
                \A x \in OtherValues(g) : \A y \in OtherValues(h) :
                    Entry(validateUserForm([[filterCall.data EXCEPT ![g] = x] EXCEPT ![h] = y]),
                          field)
                        = Entry(filterCall.result, field)
        /\ filterCall.hasErrors
                <=> \E field \in Fields : FieldInvalid(field, filterCall.data[field])

\* the three fields are invalid at once and the three are reported
C23_Witness ==
    /\ filterCall.fn = "validateUserForm"
    /\ filterCall.data = [name |-> <<>>, email |-> <<"a", "@", "a">>, city |-> <<"b">>]
    /\ filterCall.result = [name |-> "Name is required",
                             email |-> "Please enter a valid email address",
                             city |-> "City must be at least 2 characters"]
    /\ filterCall.hasErrors

\* a step that stores a new array in users: the decoded body while mounted,
\* or the array updateUser builds, whatever the values of its records
CollectionReplaced ==
    \/ \E data \in Bodies : JsonResolves(data) /\ isMounted
    \/ \E u \in editingUser : \E updates \in FormUpdates(u) : handleSaveUser(updates)

\* C24: the cached visible subset always equals applyFilters(collection,
\* debounced text, selected city); a step recomputes it only when it replaces
\* the collection or changes the debounced text or the selected city, so a
\* step that changes only the raw search text or the edit target does not.
C24_RecomputedOnInputChange ==
    /\ [](filteredUsersMemo.value = applyFilters(users, debouncedValue, selectedCity))
    /\ [][filteredUsersMemo'.recomputed =>
            \/ CollectionReplaced
            \/ debouncedValue' # debouncedValue
            \/ selectedCity' # selectedCity]_vars
    /\ [][(/\ searchQuery' # searchQuery \/ editingUser' # editingUser
           /\ ~CollectionReplaced
           /\ debouncedValue' = debouncedValue
           /\ selectedCity' = selectedCity) => ~filteredUsersMemo'.recomputed]_vars

\* the list was cut down by a propagated search text and a selected city, and
\* the last step, a change of the raw search text, recomputed nothing
C24_Witness ==
    /\ ~filteredUsersMemo.recomputed
    /\ filteredUsersMemo.value = <<User1>>
    /\ debouncedValue # EmptyString
    /\ selectedCity # EmptyString
    /\ searchQuery # debouncedValue
    /\ sinceChange = 0

\* C25: the selected city is empty or one of the values of
\* getUniqueCities(collection), also after an edit changed a record's city.
C25_SelectedCityOffered ==
    \/ selectedCity = EmptyString
    \/ \E i \in 1..Len(getUniqueCities(users)) : getUniqueCities(users)[i] = selectedCity

\* s has no whitespace at its start or its end
NoOuterSpace(s) == s = <<>> \/ (~IsWhiteSpace(s[1]) /\ ~IsWhiteSpace(s[Len(s)]))

\* C26: every record a successful submission changes has afterwards a name,
\* an email and a city without leading or trailing whitespace, for which
\* validateUserForm reports no error.
C26_SavedRecordClean ==
    [][handleSubmit =>
        \A i \in 1..Len(users) :
            (i <= Len(users') /\ users'[i] # users[i]) =>
                /\ NoOuterSpace(users'[i].name)
                /\ NoOuterSpace(users'[i].email)
                /\ NoOuterSpace(users'[i].address.city)
                /\ validateUserForm([name |-> users'[i].name,
                                     email |-> users'[i].email,
                                     city |-> users'[i].address.city]) = NoErrors
                /\ ~FieldInvalid("name", users'[i].name)
                /\ ~FieldInvalid("email", users'[i].email)
                /\ ~FieldInvalid("city", users'[i].address.city)]_vars

\* the second record was saved from a draft typed with outer spaces: a name
\* with a leading space and a city with a trailing one
C26_Witness ==
    /\ editOutcome = "saved"
    /\ Len(users) = 2
    /\ users[1] = User1
    /\ users[2] = User(2, NameJo, EmailA, Address("street2", CityNy), "phone2")
    /\ \E call \in lastUpdate : call.id = 2 /\ call.updates.name = NameJo

\* C27: while the form is open, every error message shown for a field is the
\* message validateUserForm gives for the current draft; no message is shown
\* for a field whose current value is valid.
C27_ShownErrorsCurrent ==
    formData # None =>
        \A field \in Fields :
            ErrorShown(errors, field) =>
                /\ FieldInvalid(field, The(formData)[field])
                /\ Reports(validateUserForm(The(formData)), field, errors[field])

\* after a failed submit showed three errors the name was retyped, still
\* invalid: its error is gone and the other two are still shown
C27_Witness ==
    /\ formData # None
    /\ ~ErrorShown(errors, "name")
    /\ "name" \in DOMAIN errors
    /\ FieldInvalid("name", The(formData).name)
    /\ ErrorShown(errors, "email")
    /\ ErrorShown(errors, "city")

TypeOK ==
    /\ phase \in {"rendered", "mounted", "unmounted"}
    /\ loading \in BOOLEAN
    /\ isMounted \in BOOLEAN
    /\ fetch \in {"idle", "fetching", "decoding", "resolved", "rejected"}
    /\ fetchCount \in Nat
    /\ searchQuery \in Queries
    /\ debouncedValue \in Queries
    /\ Cardinality(editingUser) <= 1
    /\ Cardinality(error) <= 1

====
